---- MODULE Spec2Model ----
(***************************************************************************)
(* State-machine model of strategy/strategies/stateful_swapping.py         *)
(* (StrategyMemory and StatefulSwapStrategy) and of the loop that drives   *)
(* it, main() of strategy/scripts/run_stateful_strategy.py.                *)
(* Specifications: Spec (every operation, short logs), SpecMemory (long    *)
(* logs, so that compaction drops records), SpecBurst (one outcome         *)
(* recorded again and again under several max_trades_kept), SpecEdge       *)
(* (every operation on zero and negative prices), SpecOutcome              *)
(* (record_trade_outcome on every side and entry price), SpecHold (HOLD    *)
(* outcomes up to a compaction) and SpecDriver (the driver loop).          *)
(*                                                                         *)
(* Numbers.  The program computes with Python floats.  Prices, sizes and   *)
(* clock readings are modelled as integers; balances and every quotient    *)
(* the code forms (pnl_pct, the aggregates, the market signal, the scores) *)
(* are exact rationals <<n, d>> with d > 0 in lowest terms, so equal       *)
(* values are equal tuples.  Floating-point rounding is not modelled.      *)
(*                                                                         *)
(* Exceptions.  The divisions of the code are guarded by tests; a call     *)
(* that reaches a division by zero raises, which the model records in      *)
(* last_call.raised, and the call changes nothing else.                    *)
(*                                                                         *)
(* Optional[float] is a sequence: <<>> is None and <<x>> holds x.          *)
(*                                                                         *)
(* A TradeRecord carries the fields the code reads (side, pnl_pct), the    *)
(* stored eth_price and size_eth, and id, the identity of the Python       *)
(* object (the code compares records with "is not"); ids are handed out in *)
(* insertion order.  The timestamp field is written and never read by the  *)
(* code; it is not carried.                                                *)
(***************************************************************************)
EXTENDS Integers, Sequences, FiniteSets, TLC

VARIABLES
    trades,                      \* StrategyMemory.trades
    success_rates,               \* StrategyMemory.success_rates
    avg_pnl,                     \* StrategyMemory.avg_pnl
    max_trades_kept,             \* StrategyMemory.max_trades_kept
    last_summary_at,             \* StrategyMemory.last_summary_at
    summary_cooldown_sec,        \* StrategyMemory.summary_cooldown_sec
    rebalance_threshold,         \* StatefulSwapStrategy.rebalance_threshold
    observe_cycles_before_trade, \* StatefulSwapStrategy.observe_cycles_before_trade
    observed_cycles,             \* StatefulSwapStrategy.observed_cycles
    _last_price,                 \* StatefulSwapStrategy._last_price
    now,                         \* the wall clock that time.time() reads
    next_id,                     \* identity of the next TradeRecord object
    last_call,                   \* the last call made: its name, arguments and result
    pre,                         \* what the last call found: the state it read
    driver                       \* the locals of main() in run_stateful_strategy.py

vars == <<trades, success_rates, avg_pnl, max_trades_kept, last_summary_at,
          summary_cooldown_sec, rebalance_threshold, observe_cycles_before_trade,
          observed_cycles, _last_price, now, next_id, last_call, pre, driver>>

memory_vars == <<trades, success_rates, avg_pnl, max_trades_kept, last_summary_at,
                 summary_cooldown_sec>>

config_vars == <<max_trades_kept, summary_cooldown_sec, rebalance_threshold,
                 observe_cycles_before_trade>>

(***************************************************************************)
(* Bounds of the model.                                                    *)
(***************************************************************************)
\* record_trade_outcome calls explored by Spec
MaxRecords == 2
\* record_trade_outcome calls explored by SpecMemory
MaxLongRecords == 12
\* record_trade_outcome calls explored by SpecBurst
MaxBurstRecords == 14
\* observe calls explored
MaxCycles == 3

\* record_trade_outcome calls explored by SpecEdge
MaxEdgeRecords == 1
\* observe calls explored by SpecEdge
MaxEdgeCycles == 1

\* record_trade_outcome calls explored by SpecOutcome
MaxOutcomeRecords == 2

\* record_trade_outcome calls explored by SpecHold
MaxHoldRecords == 11

\* iterations of the driver loop explored by SpecDriver
MaxIterations == 4

(***************************************************************************)
(* Inputs explored.                                                        *)
(***************************************************************************)
\* prices given to observe and decide
Prices == {100, 101, 104}
\* portfolio_eth and portfolio_usdc given to decide
Balances == {<<0, 1>>, <<1, 1>>}
\* recent_market_signal given to decide: None, -0.02, 0.01
OverrideSignals == {<<>>, <<<<-1, 50>>>>, <<<<1, 100>>>>}
\* rebalance_threshold given to the constructor: -0.02, 0.0, 0.02
Thresholds == {<<-1, 50>>, <<0, 1>>, <<1, 50>>}
\* observe_cycles_before_trade given to the constructor
WarmupTargets == {0, 2}
\* (side, entry_price, exit_price, size_eth) given to record_trade_outcome
RecordInputs ==
    {<<"USDC_TO_ETH", 100, 104, 1>>, <<"USDC_TO_ETH", 100, 96, 1>>,
     <<"ETH_TO_USDC", 100, 96, 1>>, <<"HOLD", 100, 104, 1>>}
\* the same for the long runs of SpecMemory: a winning and a losing buy
MemoryInputs == {<<"USDC_TO_ETH", 100, 104, 1>>, <<"USDC_TO_ETH", 100, 96, 1>>}
\* the same for SpecBurst: one outcome, recorded over and over
BurstInputs == {<<"USDC_TO_ETH", 100, 104, 1>>}
\* prices given to observe, decide and _market_signal in SpecEdge: a negative
\* price, zero, and prices 1 % and more than 2 % apart
EdgePrices == {-100, 0, 3000, 3030, 3100}
\* recent_market_signal given to decide in SpecEdge: None, 0.01
EdgeSignals == {<<>>, <<<<1, 100>>>>}
\* rebalance_threshold and observe_cycles_before_trade in SpecEdge
EdgeThresholds == {<<0, 1>>, <<1, 50>>}
EdgeWarmupTargets == {0, 1}
\* max_trades_kept in SpecEdge: the first outcome recorded is compacted
EdgeTradesKept == {0}
\* (side, entry_price, exit_price, size_eth) given to record_trade_outcome in
\* SpecEdge: every side, with a negative, a zero and a positive entry price
EdgeInputs ==
    {<<s, e, 3100, 1>> : s \in {"ETH_TO_USDC", "USDC_TO_ETH", "HOLD"},
                         e \in {-100, 0, 3000}}
\* the same in SpecOutcome: every side, entry prices -100, 0 and 3000, a lower
\* and a higher exit price
OutcomeInputs ==
    {<<s, e, x, 1>> : s \in {"ETH_TO_USDC", "USDC_TO_ETH", "HOLD"},
                      e \in {-100, 0, 3000}, x \in {2970, 3100}}
\* the same in SpecHold: a HOLD outcome and a winning buy
HoldInputs == {<<"HOLD", 100, 104, 1>>, <<"USDC_TO_ETH", 100, 104, 1>>}
\* max_trades_kept in SpecHold
HoldTradesKept == {10}
\* prices get_eth_price_stub returns: 3000 + uniform(-30, 30)
DriverPrices == {2970, 3000, 3030}
\* --rebalance-threshold and --observe-cycles given to the driver
DriverThresholds == {<<0, 1>>, <<1, 50>>}
DriverObserveCycles == {0, 1, 2}
\* --initial-eth and --initial-usdc: the defaults 1.0 and 3000.0
InitialBalances == {<<<<1, 1>>, <<3000, 1>>>>}
\* max_trades_kept given to the constructor, in Spec, SpecMemory and SpecBurst
SmallTradesKept == {1}
LongTradesKept == {9}
BurstTradesKept == {9, 10, 11, 12}
\* readings of time.time(), in seconds; the cooldown is 120 s
ClockReadings == {120, 239, 240}
\* the reading at construction
ClockStart == {120}

(***************************************************************************)
(* Program constants.                                                      *)
(***************************************************************************)
\* self.trades[-10:]
RecentWindow == 10
\* summary_cooldown_sec: int = 120
DefaultCooldown == 120

\* max_trades_kept=200 in the driver's constructor call
DriverTradesKept == 200

\* TradeSide
Sides == {"ETH_TO_USDC", "USDC_TO_ETH", "HOLD"}

(***************************************************************************)
(* Exact rationals.                                                        *)
(***************************************************************************)
Abs(x) == IF x < 0 THEN -x ELSE x

RECURSIVE Gcd(_, _)
Gcd(a, b) == IF b = 0 THEN a ELSE Gcd(b, a % b)

\* n / d for d # 0, in lowest terms with a positive denominator
Rat(n, d) ==
    LET g == Gcd(Abs(n), Abs(d))
        s == IF d < 0 THEN -1 ELSE 1
    IN  <<(s * n) \div g, (s * d) \div g>>

Zero == <<0, 1>>
RInt(x) == <<x, 1>>
RAdd(a, b) == Rat(a[1] * b[2] + b[1] * a[2], a[2] * b[2])
RSub(a, b) == Rat(a[1] * b[2] - b[1] * a[2], a[2] * b[2])
RNeg(a) == <<-a[1], a[2]>>
RLt(a, b) == a[1] * b[2] < b[1] * a[2]
RLe(a, b) == a[1] * b[2] <= b[1] * a[2]
RGt(a, b) == RLt(b, a)
RAbs(a) == <<Abs(a[1]), a[2]>>
RMin(a, b) == IF RLt(b, a) THEN b ELSE a
RMax(a, b) == IF RGt(b, a) THEN b ELSE a
\* a / k for an integer k > 0
RDivInt(a, k) == Rat(a[1], a[2] * k)
\* a * k for an integer k
RMulInt(a, k) == Rat(a[1] * k, a[2])

RECURSIVE RSum(_)
RSum(arr) == IF arr = <<>> THEN Zero ELSE RAdd(arr[1], RSum(Tail(arr)))

(***************************************************************************)
(* StrategyMemory.update_metrics                                           *)
(***************************************************************************)
\* by_side[side]: the pnl_pct of the records with that side, in order
RECURSIVE BySide(_, _)
BySide(ts, side) ==
    IF ts = <<>> THEN <<>>
    ELSE IF ts[1].side = side
         THEN <<ts[1].pnl_pct>> \o BySide(Tail(ts), side)
         ELSE BySide(Tail(ts), side)

\* wins = sum(1 for x in arr if x > 0)
Wins(arr) == Cardinality({i \in 1..Len(arr) : RGt(arr[i], Zero)})

\* "if arr:", the test that guards the two divisions by len(arr)
MetricsDivides(arr) == arr # <<>>

\* success_rates[side] as update_metrics leaves it
SuccessRate(ts, side) ==
    LET arr == BySide(ts, side)
    IN  IF MetricsDivides(arr) THEN Rat(Wins(arr), Len(arr)) ELSE Zero

\* avg_pnl[side] as update_metrics leaves it
AvgPnl(ts, side) ==
    LET arr == BySide(ts, side)
    IN  IF MetricsDivides(arr) THEN RDivInt(RSum(arr), Len(arr)) ELSE Zero

\* update_metrics raises: by_side has no key for a record's side (KeyError),
\* or a division by len(arr) is reached with len(arr) = 0 (ZeroDivisionError)
MetricsRaises(ts) ==
    \/ \E i \in 1..Len(ts) : ts[i].side \notin Sides
    \/ \E s \in Sides :
           LET arr == BySide(ts, s)
           IN  MetricsDivides(arr) /\ Len(arr) = 0

\* the two dictionaries after update_metrics has run over ts
UpdateMetrics(ts) ==
    [success_rates |-> [s \in Sides |-> SuccessRate(ts, s)],
     avg_pnl       |-> [s \in Sides |-> AvgPnl(ts, s)]]

(***************************************************************************)
(* StrategyMemory.summarize_if_needed                                      *)
(***************************************************************************)
\* max(self.trades, key=lambda t: t.pnl_pct): the index of the first record
\* no other record exceeds (Python's max keeps the first maximum)
BestIndex(ts) ==
    CHOOSE i \in 1..Len(ts) :
        /\ \A j \in 1..Len(ts) : RLe(ts[j].pnl_pct, ts[i].pnl_pct)
        /\ \A j \in 1..(i - 1) : RLt(ts[j].pnl_pct, ts[i].pnl_pct)

\* a slice one record too long
RecentMutant(ts) ==
    IF Len(ts) <= RecentWindow + 1 THEN ts
    ELSE SubSeq(ts, Len(ts) - RecentWindow, Len(ts))

\* self.trades[-10:]
Recent(ts) ==
    IF Len(ts) <= RecentWindow THEN ts
    ELSE SubSeq(ts, Len(ts) - RecentWindow + 1, Len(ts))

\* kept: the recent records, then the best record unless it is one of them
Kept(ts) ==
    LET best == ts[BestIndex(ts)]
        recent == Recent(ts)
    IN  IF \A k \in 1..Len(recent) : recent[k].id # best.id
        THEN Append(recent, best)
        ELSE recent

\* the cooldown comparison turned round
CompactionFiresFlipped(ts, t) ==
    /\ ~(Len(ts) <= max_trades_kept)
    /\ ~(t - last_summary_at > summary_cooldown_sec)

\* the length test off by one
CompactionFiresLate(ts, t) ==
    /\ ~(Len(ts) <= max_trades_kept + 1)
    /\ ~(t - last_summary_at < summary_cooldown_sec)

\* the two early returns of summarize_if_needed both fail
CompactionFires(ts, t) ==
    /\ ~(Len(ts) <= max_trades_kept)
    /\ ~(t - last_summary_at < summary_cooldown_sec)

\* compaction without the update_metrics call that follows it
SummarizeIfNeededStale(m, t) ==
    IF ~CompactionFires(m.trades, t) THEN m
    ELSE [trades          |-> Kept(m.trades),
          success_rates   |-> m.success_rates,
          avg_pnl         |-> m.avg_pnl,
          last_summary_at |-> t]

\* summarize_if_needed on a memory m = [trades, success_rates, avg_pnl,
\* last_summary_at] with the clock reading t
SummarizeIfNeeded(m, t) ==
    IF ~CompactionFires(m.trades, t) THEN m
    ELSE LET kept == Kept(m.trades)
             u == UpdateMetrics(kept)
         IN  [trades          |-> kept,
              success_rates   |-> u.success_rates,
              avg_pnl         |-> u.avg_pnl,
              last_summary_at |-> t]

(***************************************************************************)
(* StatefulSwapStrategy                                                    *)
(***************************************************************************)
\* the clamp of _market_signal, 0.02
SignalClamp == <<1, 50>>

\* the guard letting a last price of zero through
SignalDividesNonNegative(last) == last >= 0

\* "if self._last_price > 0", the test that guards the division by _last_price
SignalDivides(last) == last > 0

\* _market_signal raises: the division is reached with _last_price = 0
SignalRaises ==
    /\ _last_price # <<>>
    /\ SignalDivides(_last_price[1])
    /\ _last_price[1] = 0

\* the clamp of _market_signal missing its upper side
MarketSignalFloorOnly(eth_price) ==
    IF _last_price = <<>> THEN Zero
    ELSE LET last == _last_price[1]
             delta == eth_price - last
             rel == IF SignalDivides(last) THEN Rat(delta, last) ELSE Zero
         IN  RMax(rel, RNeg(SignalClamp))

\* _market_signal(eth_price), reading _last_price
MarketSignal(eth_price) ==
    IF _last_price = <<>> THEN Zero
    ELSE LET last == _last_price[1]
             delta == eth_price - last
             rel == IF SignalDivides(last) THEN Rat(delta, last) ELSE Zero
         IN  RMax(RMin(rel, SignalClamp), RNeg(SignalClamp))

\* market_bias computed after eth_price has been stored as the last price
MarketBiasAfterStore(eth_price, recent_market_signal) ==
    IF recent_market_signal = <<>>
    THEN LET last == eth_price
             delta == eth_price - last
             rel == IF SignalDivides(last) THEN Rat(delta, last) ELSE Zero
         IN  RMax(RMin(rel, SignalClamp), RNeg(SignalClamp))
    ELSE recent_market_signal[1]

\* market_bias of decide
MarketBias(eth_price, recent_market_signal) ==
    IF recent_market_signal = <<>>
    THEN MarketSignal(eth_price)
    ELSE recent_market_signal[1]

ScoreBuyEth(bias) == RAdd(avg_pnl["USDC_TO_ETH"], bias)
ScoreSellEth(bias) == RSub(avg_pnl["ETH_TO_USDC"], bias)

\* the warmup gate one cycle short
WarmingUpShort == observed_cycles + 1 < observe_cycles_before_trade

\* the warmup gate of decide
WarmingUp == observed_cycles < observe_cycles_before_trade

\* a tie between the scores buys
DisabledPathTieBuys(score_buy_eth, score_sell_eth, portfolio_eth, portfolio_usdc) ==
    IF RLe(score_sell_eth, score_buy_eth) /\ RGt(portfolio_usdc, Zero) THEN 122
    ELSE IF RGt(score_sell_eth, score_buy_eth) /\ RGt(portfolio_eth, Zero) THEN 125
    ELSE 127

\* the return statement reached when rebalance_threshold <= 0: its line
DisabledPath(score_buy_eth, score_sell_eth, portfolio_eth, portfolio_usdc) ==
    IF RGt(score_buy_eth, score_sell_eth) /\ RGt(portfolio_usdc, Zero) THEN 122
    ELSE IF RGt(score_sell_eth, score_buy_eth) /\ RGt(portfolio_eth, Zero) THEN 125
    ELSE 127

\* a gap equal to the threshold holds
GatedPathInclusive(score_buy_eth, score_sell_eth) ==
    LET diff == RAbs(RSub(score_buy_eth, score_sell_eth))
    IN  IF RLe(diff, rebalance_threshold) THEN 133 ELSE 136

\* the return statement reached when rebalance_threshold > 0: its line
GatedPath(score_buy_eth, score_sell_eth) ==
    LET diff == RAbs(RSub(score_buy_eth, score_sell_eth))
    IN  IF RLt(diff, rebalance_threshold) THEN 133 ELSE 136

\* the return statement decide reaches: its line in the source
DecidePath(eth_price, portfolio_eth, portfolio_usdc, recent_market_signal) ==
    LET bias == MarketBias(eth_price, recent_market_signal)
        score_buy_eth == ScoreBuyEth(bias)
        score_sell_eth == ScoreSellEth(bias)
    IN  IF WarmingUp THEN 109
        ELSE IF RLe(rebalance_threshold, Zero)
             THEN DisabledPath(score_buy_eth, score_sell_eth,
                               portfolio_eth, portfolio_usdc)
             ELSE GatedPath(score_buy_eth, score_sell_eth)

\* what the return statement at that line returns
DecideReturn(path, eth_price, recent_market_signal) ==
    LET bias == MarketBias(eth_price, recent_market_signal)
    IN  CASE path = 109 -> "HOLD"
          [] path = 122 -> "USDC_TO_ETH"
          [] path = 125 -> "ETH_TO_USDC"
          [] path = 127 -> "HOLD"
          [] path = 133 -> "HOLD"
          [] path = 136 -> IF RGt(ScoreBuyEth(bias), ScoreSellEth(bias))
                           THEN "USDC_TO_ETH" ELSE "ETH_TO_USDC"

\* the warmup return without its assignment to _last_price
LastPriceAfterWarmupSkips(path, eth_price) ==
    IF path = 109 THEN _last_price ELSE <<eth_price>>

\* _last_price as the assignment before that return statement leaves it
\* (lines 108, 121, 124, 126, 132, 135)
LastPriceAfter(path, eth_price) == <<eth_price>>

\* "if entry_price > 0", the test that guards the division by entry_price
PnlDivides(entry_price) == entry_price > 0

\* the pnl_pct expression raises: the division is reached with entry_price = 0
PnlRaises(side, entry_price) ==
    /\ side \in {"USDC_TO_ETH", "ETH_TO_USDC"}
    /\ PnlDivides(entry_price)
    /\ entry_price = 0

\* a HOLD outcome scored as a purchase
PnlPctHoldAsBuy(side, entry_price, exit_price) ==
    IF side = "ETH_TO_USDC"
    THEN IF PnlDivides(entry_price)
         THEN Rat(entry_price - exit_price, entry_price) ELSE Zero
    ELSE IF PnlDivides(entry_price)
         THEN Rat(exit_price - entry_price, entry_price) ELSE Zero

\* a sale scored as a purchase
PnlPctSellAsBuy(side, entry_price, exit_price) ==
    IF side = "USDC_TO_ETH"
    THEN IF PnlDivides(entry_price)
         THEN Rat(exit_price - entry_price, entry_price) ELSE Zero
    ELSE IF side = "ETH_TO_USDC"
    THEN IF PnlDivides(entry_price)
         THEN Rat(exit_price - entry_price, entry_price) ELSE Zero
    ELSE Zero

\* pnl_pct of record_trade_outcome
PnlPct(side, entry_price, exit_price) ==
    IF side = "USDC_TO_ETH"
    THEN IF PnlDivides(entry_price)
         THEN Rat(exit_price - entry_price, entry_price) ELSE Zero
    ELSE IF side = "ETH_TO_USDC"
    THEN IF PnlDivides(entry_price)
         THEN Rat(entry_price - exit_price, entry_price) ELSE Zero
    ELSE Zero

\* self.memory.trades.append(...); self.memory.update_metrics()
AppendOutcome(rec) ==
    LET ts == Append(trades, rec)
        u == UpdateMetrics(ts)
    IN  [trades          |-> ts,
         success_rates   |-> u.success_rates,
         avg_pnl         |-> u.avg_pnl,
         last_summary_at |-> last_summary_at]

\* f"{x:.2f}" and f"{x:.3f}": x rounded to that many decimals, as the
\* integer of its last digit (ties to even)
Format(x, digits) ==
    LET scale == IF digits = 2 THEN 100 ELSE 1000
        n == x[1] * scale
        d == x[2]
        q == n \div d
        r2 == 2 * (n % d)
    IN  IF r2 > d \/ (r2 = d /\ q % 2 = 1) THEN q + 1 ELSE q

\* the string performance_insights returns, as its four formatted numbers
InsightsText ==
    <<Format(success_rates["ETH_TO_USDC"], 2), Format(avg_pnl["ETH_TO_USDC"], 3),
      Format(success_rates["USDC_TO_ETH"], 2), Format(avg_pnl["USDC_TO_ETH"], 3)>>

(***************************************************************************)
(* Operations                                                              *)
(***************************************************************************)
\* the counter starting over once the warmup target is passed
CyclesAfterObserveWraps ==
    IF observed_cycles + 1 > observe_cycles_before_trade THEN 0
    ELSE observed_cycles + 1

\* the call counted twice
CyclesAfterObserveTwice == observed_cycles + 2

\* self.observed_cycles += 1
CyclesAfterObserve == observed_cycles + 1

Observe(eth_price) ==
    /\ observed_cycles < MaxCycles
    /\ observed_cycles' = CyclesAfterObserve
    /\ _last_price' = <<eth_price>>
    /\ last_call' = [op |-> "observe", raised |-> FALSE, eth_price |-> eth_price]
    /\ UNCHANGED <<memory_vars, rebalance_threshold, observe_cycles_before_trade,
                   now, next_id>>

\* decide raises: past the warmup gate, with no override, _market_signal does
DecideRaises(recent_market_signal) ==
    ~WarmingUp /\ recent_market_signal = <<>> /\ SignalRaises

\* an exception leaves decide before any assignment
Decide(eth_price, portfolio_eth, portfolio_usdc, recent_market_signal) ==
    LET path == DecidePath(eth_price, portfolio_eth, portfolio_usdc,
                           recent_market_signal)
    IN  IF DecideRaises(recent_market_signal)
        THEN /\ last_call' = [op |-> "decide", raised |-> TRUE,
                              eth_price |-> eth_price]
             /\ UNCHANGED <<memory_vars, rebalance_threshold,
                            observe_cycles_before_trade, observed_cycles,
                            _last_price, now, next_id>>
        ELSE /\ _last_price' = LastPriceAfter(path, eth_price)
             /\ last_call' = [op |-> "decide",
                              raised |-> FALSE,
                              eth_price |-> eth_price,
                              market_bias |-> MarketBias(eth_price, recent_market_signal),
                              portfolio_eth |-> portfolio_eth,
                              portfolio_usdc |-> portfolio_usdc,
                              result |-> DecideReturn(path, eth_price,
                                                      recent_market_signal)]
             /\ UNCHANGED <<memory_vars, rebalance_threshold,
                            observe_cycles_before_trade, observed_cycles, now, next_id>>

RecordTradeOutcome(side, entry_price, exit_price, size_eth) ==
    LET rec == [id        |-> next_id,
                side      |-> side,
                eth_price |-> exit_price,
                size_eth  |-> size_eth,
                pnl_pct   |-> PnlPct(side, entry_price, exit_price)]
        appended == AppendOutcome(rec)
        final == SummarizeIfNeeded(appended, now)
    IN  IF PnlRaises(side, entry_price)
        THEN /\ last_call' = [op |-> "record_trade_outcome", raised |-> TRUE,
                              side |-> side, entry_price |-> entry_price,
                              exit_price |-> exit_price]
             /\ UNCHANGED <<memory_vars, rebalance_threshold,
                            observe_cycles_before_trade, observed_cycles,
                            _last_price, now, next_id>>
        ELSE /\ trades' = final.trades
             /\ success_rates' = final.success_rates
             /\ avg_pnl' = final.avg_pnl
             /\ last_summary_at' = final.last_summary_at
             /\ next_id' = next_id + 1
             /\ last_call' = [op |-> "record_trade_outcome",
                              raised |-> \/ MetricsRaises(appended.trades)
                                         \/ MetricsRaises(final.trades),
                              side |-> side,
                              entry_price |-> entry_price,
                              exit_price |-> exit_price,
                              at |-> now,
                              summary_before |-> last_summary_at,
                              appended |-> appended.trades,
                              fired |-> CompactionFires(appended.trades, now)]
             /\ UNCHANGED <<max_trades_kept, summary_cooldown_sec,
                            rebalance_threshold, observe_cycles_before_trade,
                            observed_cycles, _last_price, now>>

\* the summary it prints counted as a summary of the memory
PerformanceInsightsStamps ==
    /\ last_call' = [op |-> "performance_insights", raised |-> FALSE,
                     result |-> InsightsText]
    /\ last_summary_at' = now
    /\ UNCHANGED <<trades, success_rates, avg_pnl, max_trades_kept,
                   summary_cooldown_sec, rebalance_threshold,
                   observe_cycles_before_trade, observed_cycles, _last_price,
                   now, next_id>>

PerformanceInsights ==
    /\ last_call' = [op |-> "performance_insights", raised |-> FALSE,
                     result |-> InsightsText]
    /\ UNCHANGED <<memory_vars, rebalance_threshold, observe_cycles_before_trade,
                   observed_cycles, _last_price, now, next_id>>

\* a call of _market_signal(eth_price) on its own
MarketSignalCall(eth_price) ==
    /\ last_call' = IF SignalRaises
                    THEN [op |-> "_market_signal", raised |-> TRUE,
                          eth_price |-> eth_price]
                    ELSE [op |-> "_market_signal", raised |-> FALSE,
                          eth_price |-> eth_price,
                          result |-> MarketSignal(eth_price)]
    /\ UNCHANGED <<memory_vars, rebalance_threshold, observe_cycles_before_trade,
                   observed_cycles, _last_price, now, next_id>>

\* time passes between calls: the clock moves to a later reading
Tick ==
    /\ \E t \in ClockReadings : t > now /\ now' = t
    /\ UNCHANGED <<memory_vars, rebalance_threshold, observe_cycles_before_trade,
                   observed_cycles, _last_price, next_id, last_call>>

(***************************************************************************)
(* Construction: StrategyMemory's field defaults and __init__               *)
(***************************************************************************)
Construct(kept_choices, thresholds, warmups, clock_start) ==
    /\ trades = <<>>
    /\ success_rates = [s \in Sides |-> Zero]
    /\ avg_pnl = [s \in Sides |-> Zero]
    /\ max_trades_kept \in kept_choices
    /\ last_summary_at = 0
    /\ summary_cooldown_sec = DefaultCooldown
    /\ rebalance_threshold \in thresholds
    /\ observe_cycles_before_trade \in warmups
    /\ observed_cycles = 0
    /\ _last_price = <<>>
    /\ now \in clock_start
    /\ next_id = 1
    /\ last_call = [op |-> "__init__", raised |-> FALSE]

(***************************************************************************)
(* Spec: every operation of the policy, short trade logs                   *)
(***************************************************************************)
\* no driver loop runs, and nothing is kept of what a call found
Alone == pre = <<>> /\ driver = <<>>

Init == Construct(SmallTradesKept, Thresholds, WarmupTargets, ClockStart) /\ Alone

Next ==
    \/ \E p \in Prices : Observe(p) /\ UNCHANGED <<pre, driver>>
    \/ \E p \in Prices, e \in Balances, u \in Balances, s \in OverrideSignals :
           Decide(p, e, u, s) /\ UNCHANGED <<pre, driver>>
    \/ \E r \in RecordInputs :
           /\ next_id <= MaxRecords
           /\ RecordTradeOutcome(r[1], r[2], r[3], r[4])
           /\ UNCHANGED <<pre, driver>>
    \/ PerformanceInsights /\ UNCHANGED <<pre, driver>>

Spec == Init /\ [][Next]_vars

(***************************************************************************)
(* SpecMemory: long trade logs, so that compaction drops records           *)
(***************************************************************************)
InitMemory == Construct(LongTradesKept, {Zero}, {0}, ClockStart) /\ Alone

NextMemory ==
    \/ \E r \in MemoryInputs :
           /\ next_id <= MaxLongRecords
           /\ RecordTradeOutcome(r[1], r[2], r[3], r[4])
           /\ UNCHANGED <<pre, driver>>
    \/ Tick /\ UNCHANGED <<pre, driver>>

SpecMemory == InitMemory /\ [][NextMemory]_vars

(***************************************************************************)
(* SpecBurst: one outcome recorded repeatedly, several max_trades_kept      *)
(***************************************************************************)
InitBurst == Construct(BurstTradesKept, {Zero}, {0}, ClockStart) /\ Alone

NextBurst ==
    \/ \E r \in BurstInputs :
           /\ next_id <= MaxBurstRecords
           /\ RecordTradeOutcome(r[1], r[2], r[3], r[4])
           /\ UNCHANGED <<pre, driver>>
    \/ Tick /\ UNCHANGED <<pre, driver>>

SpecBurst == InitBurst /\ [][NextBurst]_vars

(***************************************************************************)
(* SpecEdge: every operation on zero and negative prices, with what each   *)
(* call found kept in pre                                                  *)
(***************************************************************************)
InitEdge ==
    /\ Construct(EdgeTradesKept, EdgeThresholds, EdgeWarmupTargets, ClockStart)
    /\ Alone

NextEdge ==
    \/ \E p \in EdgePrices :
           /\ observed_cycles < MaxEdgeCycles
           /\ Observe(p)
           /\ pre' = <<>>
           /\ UNCHANGED driver
    \/ \E p \in EdgePrices :
           MarketSignalCall(p) /\ pre' = <<>> /\ UNCHANGED driver
    \/ \E p \in EdgePrices, u \in Balances, s \in EdgeSignals :
           /\ Decide(p, <<1, 1>>, u, s)
           /\ pre' = [_last_price |-> _last_price, recent_market_signal |-> s]
           /\ UNCHANGED driver
    \/ \E r \in EdgeInputs :
           /\ next_id <= MaxEdgeRecords
           /\ RecordTradeOutcome(r[1], r[2], r[3], r[4])
           /\ pre' = [trades |-> trades]
           /\ UNCHANGED driver
    \/ PerformanceInsights /\ pre' = <<>> /\ UNCHANGED driver

SpecEdge == InitEdge /\ [][NextEdge]_vars

(***************************************************************************)
(* SpecOutcome: record_trade_outcome on every side and on entry prices     *)
(* <= 0, with the log each call found kept in pre                          *)
(***************************************************************************)
InitOutcome == Construct(SmallTradesKept, {Zero}, {0}, ClockStart) /\ Alone

NextOutcome ==
    \/ \E r \in OutcomeInputs :
           /\ next_id <= MaxOutcomeRecords
           /\ RecordTradeOutcome(r[1], r[2], r[3], r[4])
           /\ pre' = [trades |-> trades]
           /\ UNCHANGED driver

SpecOutcome == InitOutcome /\ [][NextOutcome]_vars

(***************************************************************************)
(* SpecHold: HOLD outcomes recorded until the log is compacted, with the   *)
(* log and the averages each call found kept in pre                        *)
(***************************************************************************)
InitHold == Construct(HoldTradesKept, {Zero}, {0}, ClockStart) /\ Alone

NextHold ==
    \/ \E r \in HoldInputs :
           /\ next_id <= MaxHoldRecords
           /\ RecordTradeOutcome(r[1], r[2], r[3], r[4])
           /\ pre' = [trades |-> trades, avg_pnl |-> avg_pnl,
                      success_rates |-> success_rates]
           /\ UNCHANGED driver

SpecHold == InitHold /\ [][NextHold]_vars

(***************************************************************************)
(* SpecDriver: main() of scripts/run_stateful_strategy.py.  driver holds   *)
(* its locals: the arguments iterations and observe_cycles, the loop index *)
(* i, price, side, the portfolio, the open leg (entry_side, entry_price,   *)
(* entry_size_eth), pc (the statement reached next) and calls, the calls   *)
(* made on the strategy so far, each with its iteration.  time.sleep moves *)
(* the clock only; compaction needs more than 200 records, so the clock is *)
(* left as it is.                                                          *)
(***************************************************************************)
policy_vars == <<memory_vars, rebalance_threshold, observe_cycles_before_trade,
                 observed_cycles, _last_price, now, next_id>>

\* the strategy call just made, entered in driver.calls by the step making it
Called == Append(driver.calls, [i |-> driver.i,
                                observed_cycles |-> observed_cycles',
                                call |-> last_call'])

\* for i in range(args.iterations): price = get_eth_price_stub()
GetPrice ==
    /\ driver.pc = "price"
    /\ driver.i < driver.iterations
    /\ \E p \in DriverPrices :
           driver' = [driver EXCEPT !.price = p, !.pc = "observe"]
    /\ UNCHANGED <<policy_vars, last_call, pre>>

\* the loop is over: print the final portfolio
Finish ==
    /\ driver.pc = "price"
    /\ ~(driver.i < driver.iterations)
    /\ driver' = [driver EXCEPT !.pc = "done"]
    /\ UNCHANGED <<policy_vars, last_call, pre>>

\* the test of the warmup observation one iteration short
WarmupObservesShort == driver.i + 1 < driver.observe_cycles

\* if i < args.observe_cycles
WarmupObserves == driver.i < driver.observe_cycles

\* if i < args.observe_cycles: strategy.observe(price)
WarmupObservation ==
    /\ driver.pc = "observe"
    /\ IF WarmupObserves
       THEN /\ Observe(driver.price)
            /\ driver' = [driver EXCEPT !.pc = "record", !.calls = Called]
       ELSE /\ driver' = [driver EXCEPT !.pc = "record"]
            /\ UNCHANGED <<policy_vars, last_call>>
    /\ UNCHANGED pre

\* realize the PnL of the open leg, if there is one, and close it
RealizeLeg ==
    /\ driver.pc = "record"
    /\ IF driver.entry_side # <<>> /\ driver.entry_price # <<>>
       THEN /\ RecordTradeOutcome(driver.entry_side[1], driver.entry_price[1],
                                  driver.price, driver.entry_size_eth)
            /\ driver' = [driver EXCEPT !.pc = "decide", !.calls = Called,
                                        !.entry_side = <<>>,
                                        !.entry_price = <<>>,
                                        !.entry_size_eth = Zero]
       ELSE /\ driver' = [driver EXCEPT !.pc = "decide"]
            /\ UNCHANGED <<policy_vars, last_call>>
    /\ UNCHANGED pre

\* side = strategy.decide(price, portfolio_eth, portfolio_usdc, None)
DecideSide ==
    /\ driver.pc = "decide"
    /\ Decide(driver.price, driver.portfolio_eth, driver.portfolio_usdc, <<>>)
    /\ driver' = [driver EXCEPT !.pc = "print", !.calls = Called,
                                !.side = last_call'.result]
    /\ UNCHANGED pre

\* print(... strategy.performance_insights())
PrintInsights ==
    /\ driver.pc = "print"
    /\ PerformanceInsights
    /\ driver' = [driver EXCEPT !.pc = "execute", !.calls = Called]
    /\ UNCHANGED pre

\* execute_swap_stub: (eth_bought, usdc_received)
ExecuteSwapStub(side, amount_eth, amount_usdc, price) ==
    IF side = "USDC_TO_ETH"
    THEN <<IF price > 0 THEN RDivInt(amount_usdc, price) ELSE Zero, Zero>>
    ELSE IF side = "ETH_TO_USDC"
    THEN <<Zero, RMulInt(amount_eth, price)>>
    ELSE <<amount_eth, amount_usdc>>

\* the branch taken whatever the balance
SwapBranchWithoutFunds(side, portfolio_eth, portfolio_usdc) ==
    IF side = "USDC_TO_ETH" THEN 98
    ELSE IF side = "ETH_TO_USDC" THEN 110
    ELSE 122

\* the branch of the if / elif after decide: the line of its test, or 122
\* (the sleep) when neither test holds
SwapBranch(side, portfolio_eth, portfolio_usdc) ==
    IF side = "USDC_TO_ETH" /\ RGt(portfolio_usdc, Zero) THEN 98
    ELSE IF side = "ETH_TO_USDC" /\ RGt(portfolio_eth, Zero) THEN 110
    ELSE 122

\* execute the swap decided, open its leg, update the portfolio; then
\* time.sleep and the next iteration
ExecuteSwap ==
    /\ driver.pc = "execute"
    /\ LET branch == SwapBranch(driver.side, driver.portfolio_eth,
                                driver.portfolio_usdc)
           swapped == ExecuteSwapStub(driver.side, driver.portfolio_eth,
                                      driver.portfolio_usdc, driver.price)
       IN  driver' =
               IF branch = 98
               THEN [driver EXCEPT !.pc = "price", !.i = @ + 1,
                                   !.entry_side = <<driver.side>>,
                                   !.entry_price = <<driver.price>>,
                                   !.entry_size_eth = swapped[1],
                                   !.portfolio_eth = RAdd(@, swapped[1]),
                                   !.portfolio_usdc = Zero]
               ELSE IF branch = 110
               THEN [driver EXCEPT !.pc = "price", !.i = @ + 1,
                                   !.entry_side = <<driver.side>>,
                                   !.entry_price = <<driver.price>>,
                                   !.entry_size_eth = driver.portfolio_eth,
                                   !.portfolio_usdc = RAdd(@, swapped[2]),
                                   !.portfolio_eth = Zero]
               ELSE [driver EXCEPT !.pc = "price", !.i = @ + 1]
    /\ UNCHANGED <<policy_vars, last_call, pre>>

\* main() up to the loop: the strategy is built from the arguments
InitDriver ==
    /\ Construct({DriverTradesKept}, DriverThresholds, DriverObserveCycles,
                 ClockStart)
    /\ pre = <<>>
    /\ \E n \in 1..MaxIterations, b \in InitialBalances :
           driver = [pc             |-> "price",
                     iterations     |-> n,
                     observe_cycles |-> observe_cycles_before_trade,
                     i              |-> 0,
                     price          |-> 0,
                     side           |-> "HOLD",
                     portfolio_eth  |-> b[1],
                     portfolio_usdc |-> b[2],
                     entry_side     |-> <<>>,
                     entry_price    |-> <<>>,
                     entry_size_eth |-> Zero,
                     calls          |-> <<>>]

NextDriver ==
    \/ GetPrice
    \/ WarmupObservation
    \/ RealizeLeg
    \/ DecideSide
    \/ PrintInsights
    \/ ExecuteSwap
    \/ Finish

SpecDriver == InitDriver /\ [][NextDriver]_vars

(***************************************************************************)
(* Properties                                                              *)
(***************************************************************************)
One == <<1, 1>>
Min(S) == CHOOSE x \in S : \A y \in S : x <= y
Max(a, b) == IF a >= b THEN a ELSE b

Recorded == last_call.op = "record_trade_outcome"
Decided == last_call.op = "decide"
Active == observed_cycles >= observe_cycles_before_trade

\* the records of trades with side a, and those of them with a positive pnl_pct
WithSide(a) == {i \in 1..Len(trades) : trades[i].side = a}
WinsWithSide(a) == {i \in WithSide(a) : RGt(trades[i].pnl_pct, Zero)}

\* the sum of pnl_pct over the first n records of trades with side a
RECURSIVE PnlTotal(_, _)
PnlTotal(a, n) ==
    IF n = 0 THEN Zero
    ELSE IF trades[n].side = a
         THEN RAdd(PnlTotal(a, n - 1), trades[n].pnl_pct)
         ELSE PnlTotal(a, n - 1)

\* C1: in every reachable state, for each action a, success_rates[a] is the
\* fraction of the records of trades with side a whose pnl_pct is positive and
\* avg_pnl[a] is the mean pnl_pct of those records, both 0.0 when there is no
\* such record; success_rates[a] lies in [0, 1].
C1_AggregatesExact ==
    \A a \in Sides :
        LET n == Cardinality(WithSide(a))
        IN  /\ success_rates[a] =
                  IF n = 0 THEN Zero ELSE Rat(Cardinality(WinsWithSide(a)), n)
            /\ avg_pnl[a] =
                  IF n = 0 THEN Zero ELSE RDivInt(PnlTotal(a, Len(trades)), n)
            /\ RLe(Zero, success_rates[a])
            /\ RLe(success_rates[a], One)

\* a compaction has just dropped records and changed the win fraction, which
\* is strictly between 0 and 1
C1_Witness ==
    /\ Recorded
    /\ last_call.fired
    /\ Len(trades) < Len(last_call.appended)
    /\ success_rates["USDC_TO_ETH"] # SuccessRate(last_call.appended, "USDC_TO_ETH")
    /\ RLt(Zero, success_rates["USDC_TO_ETH"])
    /\ RLt(success_rates["USDC_TO_ETH"], One)

\* C2: a decide call made while observed_cycles < observe_cycles_before_trade
\* returns HOLD, whatever its arguments, the threshold and the memory.
C2_WarmupHolds ==
    (Decided /\ observed_cycles < observe_cycles_before_trade)
        => last_call.result = "HOLD"

\* decide held during warmup although the scores differ and both balances are
\* positive
C2_Witness ==
    /\ Decided
    /\ observed_cycles < observe_cycles_before_trade
    /\ last_call.result = "HOLD"
    /\ ScoreBuyEth(last_call.market_bias) # ScoreSellEth(last_call.market_bias)
    /\ RGt(last_call.portfolio_eth, Zero)
    /\ RGt(last_call.portfolio_usdc, Zero)

\* C3: once observed_cycles >= observe_cycles_before_trade, it stays so after
\* every step.
C3_ActiveForever ==
    [][(observed_cycles >= observe_cycles_before_trade)
          => (observed_cycles' >= observe_cycles_before_trade')]_vars

\* a policy with a warmup target that became active, was observed again and has
\* decided since
C3_Witness ==
    /\ observe_cycles_before_trade > 0
    /\ observed_cycles > observe_cycles_before_trade
    /\ Decided

\* the index in ts of the record max(ts, key=pnl_pct) returns: the earliest
\* record no record exceeds
EarliestBest(ts) ==
    Min({i \in 1..Len(ts) :
            \A j \in 1..Len(ts) : RLe(ts[j].pnl_pct, ts[i].pnl_pct)})

\* C4: when compaction fires, trades ends with at most 11 records, among them
\* one whose pnl_pct is the maximum over the records before compaction; with at
\* least 10 records before compaction it ends with exactly 10 records if the
\* best-PnL record is among the last 10 and exactly 11 otherwise.
C4_CompactionSize ==
    (Recorded /\ last_call.fired) =>
        LET before == last_call.appended
            b == EarliestBest(before)
        IN  /\ Len(trades) <= 11
            /\ \E k \in 1..Len(trades) : trades[k].pnl_pct = before[b].pnl_pct
            /\ Len(before) >= 10 =>
                   Len(trades) = IF b > Len(before) - 10 THEN 10 ELSE 11

\* a compaction of 12 records that kept 11: the best one was not among the
\* last 10
C4_Witness ==
    /\ Recorded
    /\ last_call.fired
    /\ Len(last_call.appended) = 12
    /\ Len(trades) = 11

\* C5: trades is in insertion order: every record was inserted before the
\* record that follows it.
C5_Chronological ==
    \A i, j \in 1..Len(trades) : i < j => trades[i].id < trades[j].id

\* C6: compaction fires in a record_trade_outcome call only if, after the
\* append, len(trades) > max_trades_kept and now - last_summary_at >=
\* summary_cooldown_sec; last_summary_at becomes now when it fires and is left
\* as it was otherwise, so a compaction is at least summary_cooldown_sec after
\* the one before it.
C6_CompactionGate ==
    Recorded =>
        /\ last_call.fired =>
               /\ Len(last_call.appended) > max_trades_kept
               /\ last_call.at - last_call.summary_before >= summary_cooldown_sec
        /\ last_summary_at =
               IF last_call.fired THEN last_call.at ELSE last_call.summary_before
        /\ trades # last_call.appended => last_call.fired

\* a second compaction, the cooldown after the first
C6_Witness ==
    /\ Recorded
    /\ last_call.fired
    /\ last_call.summary_before > 0
    /\ last_summary_at - last_call.summary_before >= summary_cooldown_sec

\* C7 as stated: the number of records update_metrics recomputes over in a
\* record_trade_outcome call never exceeds max(max_trades_kept, 11) + 1.
C7_LogBounded ==
    Recorded => Len(last_call.appended) <= Max(max_trades_kept, 11) + 1

\* C7 amended: a record_trade_outcome call made when the cooldown has elapsed
\* (now - last_summary_at >= summary_cooldown_sec) leaves at most
\* max(max_trades_kept, 11) records in trades.
C7_BoundedWhenCooldownElapsed ==
    (Recorded /\ last_call.at - last_call.summary_before >= summary_cooldown_sec)
        => Len(trades) <= Max(max_trades_kept, 11)

\* a call after the cooldown that compacted a log grown past
\* max(max_trades_kept, 11) + 1 during the cooldown
C7_Witness ==
    /\ Recorded
    /\ last_call.at - last_call.summary_before >= summary_cooldown_sec
    /\ last_call.summary_before > 0
    /\ Len(last_call.appended) > Max(max_trades_kept, 11) + 1
    /\ Len(trades) = 11

\* the scores of the last decide call
BuyScore == RAdd(avg_pnl["USDC_TO_ETH"], last_call.market_bias)
SellScore == RSub(avg_pnl["ETH_TO_USDC"], last_call.market_bias)

\* C8: an active policy with rebalance_threshold <= 0 returns USDC_TO_ETH iff
\* buyScore > sellScore and portfolio_usdc > 0, ETH_TO_USDC iff sellScore >
\* buyScore and portfolio_eth > 0, and HOLD in every other case.
C8_ThresholdDisabled ==
    (Decided /\ Active /\ RLe(rebalance_threshold, Zero)) =>
        /\ last_call.result = "USDC_TO_ETH"
               <=> (RGt(BuyScore, SellScore) /\ RGt(last_call.portfolio_usdc, Zero))
        /\ last_call.result = "ETH_TO_USDC"
               <=> (RGt(SellScore, BuyScore) /\ RGt(last_call.portfolio_eth, Zero))
        /\ last_call.result = "HOLD"
               <=> ~((RGt(BuyScore, SellScore) /\ RGt(last_call.portfolio_usdc, Zero))
                     \/ (RGt(SellScore, BuyScore) /\ RGt(last_call.portfolio_eth, Zero)))
        /\ BuyScore = SellScore => last_call.result = "HOLD"

\* equal scores that are not both zero, with both balances positive, held
C8_Witness ==
    /\ Decided
    /\ Active
    /\ RLe(rebalance_threshold, Zero)
    /\ BuyScore = SellScore
    /\ BuyScore # Zero
    /\ RGt(last_call.portfolio_eth, Zero)
    /\ RGt(last_call.portfolio_usdc, Zero)
    /\ last_call.result = "HOLD"

\* C9: an active policy with rebalance_threshold > 0 returns HOLD iff
\* |buyScore - sellScore| < rebalance_threshold, otherwise USDC_TO_ETH if
\* buyScore > sellScore and ETH_TO_USDC if not, whatever the balances.
C9_ThresholdGated ==
    (Decided /\ Active /\ RGt(rebalance_threshold, Zero)) =>
        last_call.result =
            IF RLt(RAbs(RSub(BuyScore, SellScore)), rebalance_threshold) THEN "HOLD"
            ELSE IF RGt(BuyScore, SellScore) THEN "USDC_TO_ETH"
            ELSE "ETH_TO_USDC"

\* a gap equal to the threshold returned a swap of USDC the caller does not hold
C9_Witness ==
    /\ Decided
    /\ Active
    /\ RGt(rebalance_threshold, Zero)
    /\ RAbs(RSub(BuyScore, SellScore)) = rebalance_threshold
    /\ last_call.portfolio_usdc = Zero
    /\ last_call.result = "USDC_TO_ETH"

\* C10: after every decide call, _last_price is the eth_price it was given.
C10_LastPriceSet ==
    Decided => _last_price = <<last_call.eth_price>>

\* a decide call held by the warmup gate has stored its price
C10_Witness ==
    /\ Decided
    /\ observed_cycles < observe_cycles_before_trade
    /\ last_call.result = "HOLD"
    /\ _last_price = <<104>>


SignalCalled == last_call.op = "_market_signal"

\* x clamped to [-0.02, 0.02]
Clamped(x) ==
    IF RGt(x, <<1, 50>>) THEN <<1, 50>>
    ELSE IF RLt(x, <<-1, 50>>) THEN <<-1, 50>>
    ELSE x

\* C11: _market_signal(price) returns 0.0 when no price has been seen and when
\* the last-seen price is <= 0, and otherwise (price - last) / last clamped to
\* [-0.02, 0.02]; its result is always within [-0.02, 0.02], and is 0.02 for
\* last 3000 and price 3100.
C11_SignalClamped ==
    SignalCalled =>
        LET p == last_call.eth_price
        IN  /\ ~last_call.raised
            /\ _last_price = <<>> => last_call.result = Zero
            /\ (_last_price # <<>> /\ _last_price[1] <= 0)
                   => last_call.result = Zero
            /\ (_last_price # <<>> /\ _last_price[1] > 0)
                   => last_call.result =
                          Clamped(Rat(p - _last_price[1], _last_price[1]))
            /\ RLe(<<-1, 50>>, last_call.result)
            /\ RLe(last_call.result, <<1, 50>>)
            /\ (_last_price = <<3000>> /\ p = 3100)
                   => last_call.result = <<1, 50>>

\* the signal of 3100 after 3000, a rise of 3.3 %, came out as 0.02
C11_Witness ==
    /\ SignalCalled
    /\ _last_price = <<3000>>
    /\ last_call.eth_price = 3100
    /\ last_call.result = <<1, 50>>


\* the outcome the specification gives a finished leg
ExpectedPnl(side, entry_price, exit_price) ==
    IF entry_price <= 0 THEN Zero
    ELSE CASE side = "USDC_TO_ETH" -> Rat(exit_price - entry_price, entry_price)
           [] side = "ETH_TO_USDC" -> Rat(entry_price - exit_price, entry_price)
           [] side = "HOLD" -> Zero

\* C12: record_trade_outcome appends exactly one record, of the given side,
\* with pnl_pct (exit - entry) / entry for USDC_TO_ETH, (entry - exit) / entry
\* for ETH_TO_USDC, 0.0 for HOLD and 0.0 whenever entry <= 0; the aggregates
\* are those of the log after the append, and the compaction tests see the log
\* with the new record in it; on a fresh policy one USDC_TO_ETH outcome from
\* 3000 to 3100 gives avg_pnl 100/3000 and success rate 1.0.
C12_OutcomeRecorded ==
    Recorded =>
        /\ ~last_call.raised
        /\ LET after == last_call.appended
               rec == after[Len(after)]
           IN  /\ after = Append(pre.trades, rec)
               /\ \A i \in 1..Len(pre.trades) : pre.trades[i].id # rec.id
               /\ rec.side = last_call.side
               /\ rec.pnl_pct = ExpectedPnl(last_call.side, last_call.entry_price,
                                            last_call.exit_price)
               /\ last_call.fired <=>
                      /\ Len(pre.trades) + 1 > max_trades_kept
                      /\ last_call.at - last_call.summary_before
                             >= summary_cooldown_sec
               /\ ~last_call.fired => trades = after
        /\ C1_AggregatesExact
        /\ (/\ pre.trades = <<>>
            /\ last_call.side = "USDC_TO_ETH"
            /\ last_call.entry_price = 3000
            /\ last_call.exit_price = 3100)
               => /\ avg_pnl["USDC_TO_ETH"] = <<1, 30>>
                  /\ success_rates["USDC_TO_ETH"] = One

\* a sale entered at 3000 and left at 2970 was recorded after a purchase with
\* an entry price of 0: outcomes +0.01 and 0.0
C12_Witness ==
    /\ Recorded
    /\ Len(pre.trades) = 1
    /\ pre.trades[1].side = "USDC_TO_ETH"
    /\ pre.trades[1].pnl_pct = Zero
    /\ last_call.side = "ETH_TO_USDC"
    /\ last_call.entry_price = 3000
    /\ last_call.exit_price = 2970
    /\ avg_pnl["ETH_TO_USDC"] = <<1, 100>>
    /\ last_call.fired


\* C13: no call of observe, decide, record_trade_outcome (with update_metrics
\* and summarize_if_needed inside it) or performance_insights raises, whatever
\* the side, the prices (zero and negative ones too), the balances and the
\* history; a last-seen price that is None or <= 0 gives the signal 0.0, an
\* entry price <= 0 gives the outcome 0.0, and a side with no records has
\* success rate 0.0 and average outcome 0.0.
C13_NoErrorState ==
    /\ ~last_call.raised
    /\ (/\ Decided
        /\ Active
        /\ pre.recent_market_signal = <<>>
        /\ (pre._last_price = <<>> \/ pre._last_price[1] <= 0))
           => /\ last_call.market_bias = Zero
              /\ last_call.result \in Sides
    /\ (Recorded /\ last_call.entry_price <= 0)
           => last_call.appended[Len(last_call.appended)].pnl_pct = Zero
    /\ \A a \in Sides :
           WithSide(a) = {} => (success_rates[a] = Zero /\ avg_pnl[a] = Zero)
    /\ (last_call.op = "performance_insights" /\ trades = <<>>)
           => last_call.result = <<0, 0, 0, 0>>

\* decide, given a zero USDC balance and no override, ran past the warmup gate
\* on a last-seen price of 0 and used the signal 0.0; the memory holds a sale
\* whose entry price was <= 0, compacted when it was recorded
C13_Witness ==
    /\ Decided
    /\ Active
    /\ pre.recent_market_signal = <<>>
    /\ pre._last_price = <<0>>
    /\ ~last_call.raised
    /\ last_call.market_bias = Zero
    /\ last_call.portfolio_usdc = Zero
    /\ Len(trades) = 1
    /\ trades[1].side = "ETH_TO_USDC"
    /\ trades[1].pnl_pct = Zero
    /\ last_summary_at = now


Insighted == last_call.op = "performance_insights"

\* C14: a step that is an observe, decide or performance_insights call leaves
\* trades, success_rates, avg_pnl and last_summary_at as they were; a
\* performance_insights call leaves every field of the policy and of its
\* memory as it was; a performance_insights call that follows another returns
\* what that one returned.
C14_MemoryFrame ==
    [][/\ last_call'.op \in {"observe", "decide", "performance_insights"}
              => UNCHANGED <<trades, success_rates, avg_pnl, last_summary_at>>
       /\ last_call'.op = "performance_insights"
              => UNCHANGED <<memory_vars, rebalance_threshold,
                             observe_cycles_before_trade, observed_cycles,
                             _last_price>>
       /\ (Insighted /\ last_call'.op = "performance_insights")
              => last_call'.result = last_call.result]_vars

\* performance_insights has reported a memory with a losing purchase and a
\* winning sale in it, on a policy that has observed and seen a price
C14_Witness ==
    /\ Insighted
    /\ Len(trades) = 2
    /\ last_call.result = <<100, 40, 0, -40>>
    /\ observed_cycles > 0
    /\ _last_price # <<>>

\* the records of ts from index from on
From(ts, from) == SubSeq(ts, from, Len(ts))

\* C15: when compaction fires, trades becomes the last 10 records followed,
\* if it is not one of them, by the earliest-inserted record among those with
\* the maximum pnl_pct; that record is kept even when one of the last 10 has
\* the same pnl_pct; no record is in trades twice.
C15_EarliestBestKept ==
    /\ \A i, j \in 1..Len(trades) : i # j => trades[i].id # trades[j].id
    /\ (Recorded /\ last_call.fired) =>
           LET found == last_call.appended
               n == Len(found)
               first == Max(1, n - 9)
               best == CHOOSE i \in 1..n :
                           /\ \A j \in 1..n : RLe(found[j].pnl_pct, found[i].pnl_pct)
                           /\ \A j \in 1..n :
                                  found[j].pnl_pct = found[i].pnl_pct
                                      => found[i].id <= found[j].id
           IN  trades = IF best >= first
                        THEN From(found, first)
                        ELSE Append(From(found, first), found[best])


\* the signal of price against the last-seen price seen (None is <<>>)
SignalAgainst(seen, price) ==
    IF seen = <<>> THEN Zero
    ELSE IF seen[1] <= 0 THEN Zero
    ELSE Clamped(Rat(price - seen[1], seen[1]))

\* C16: a decide call past the warmup gate and without an override scores
\* with the signal of its price against the last-seen price as the call found
\* it, and leaves its own price as the last-seen price; the signal is 0.0 when
\* the price equals the one the call found and when the call found none.
C16_SignalBeforeStore ==
    (Decided /\ Active /\ pre.recent_market_signal = <<>>) =>
        /\ last_call.market_bias =
               SignalAgainst(pre._last_price, last_call.eth_price)
        /\ _last_price = <<last_call.eth_price>>
        /\ pre._last_price = <<last_call.eth_price>>
               => last_call.market_bias = Zero
        /\ pre._last_price = <<>> => last_call.market_bias = Zero

\* decide found 3000 as the last-seen price, was given 3030, scored with the
\* signal 0.01 and left 3030
C16_Witness ==
    /\ Decided
    /\ Active
    /\ pre.recent_market_signal = <<>>
    /\ pre._last_price = <<3000>>
    /\ last_call.eth_price = 3030
    /\ last_call.market_bias = <<1, 100>>
    /\ _last_price = <<3030>>


\* C17: an observe call raises observed_cycles by exactly 1; decide,
\* record_trade_outcome and performance_insights leave it as it was; a policy
\* with a warmup target N > 0 passes from warming up to active only in the
\* observe call that brings the counter to N; a decide call on a policy with
\* N > 0 that has never observed returns HOLD.
C17_CounterFrame ==
    [][/\ last_call'.op = "observe" => observed_cycles' = observed_cycles + 1
       /\ last_call'.op \in {"decide", "record_trade_outcome",
                             "performance_insights"}
              => observed_cycles' = observed_cycles
       /\ (/\ observed_cycles < observe_cycles_before_trade
           /\ observed_cycles' >= observe_cycles_before_trade')
              => /\ last_call'.op = "observe"
                 /\ observed_cycles' = observe_cycles_before_trade
       /\ (/\ last_call'.op = "decide"
           /\ observe_cycles_before_trade > 0
           /\ observed_cycles = 0)
              => last_call'.result = "HOLD"]_vars

\* after two outcomes were recorded, a policy whose counter stands at its
\* warmup target of 2 decided to swap
C17_Witness ==
    /\ Decided
    /\ observe_cycles_before_trade = 2
    /\ observed_cycles = 2
    /\ last_call.result # "HOLD"
    /\ Len(trades) = 2


\* C18: success_rates["HOLD"] and avg_pnl["HOLD"] are 0.0 in every state; a
\* HOLD outcome is stored in trades with pnl_pct 0.0, counts in the length
\* test of compaction, and, when no compaction follows it, leaves the averages
\* and success rates of the two swap sides (the inputs of decide's scores) as
\* they were; a compaction keeps the last 10 records, HOLD records among them,
\* in their places.
C18_HoldNeutral ==
    /\ success_rates["HOLD"] = Zero
    /\ avg_pnl["HOLD"] = Zero
    /\ (Recorded /\ last_call.side = "HOLD") =>
           LET found == last_call.appended
               rec == found[Len(found)]
           IN  /\ found = Append(pre.trades, rec)
               /\ rec.side = "HOLD"
               /\ rec.pnl_pct = Zero
               /\ last_call.fired <=>
                      /\ Len(pre.trades) + 1 > max_trades_kept
                      /\ last_call.at - last_call.summary_before
                             >= summary_cooldown_sec
               /\ ~last_call.fired =>
                      \A a \in {"USDC_TO_ETH", "ETH_TO_USDC"} :
                          /\ avg_pnl[a] = pre.avg_pnl[a]
                          /\ success_rates[a] = pre.success_rates[a]
    /\ (Recorded /\ last_call.fired /\ Len(last_call.appended) >= 10) =>
           LET found == last_call.appended
           IN  \A k \in 1..10 : trades[k] = found[Len(found) - 10 + k]

\* the eleventh outcome, a HOLD, set off a compaction that kept ten HOLD
\* records and, behind them, the one purchase recorded before them
C18_Witness ==
    /\ Recorded
    /\ last_call.side = "HOLD"
    /\ last_call.fired
    /\ Len(trades) = 11
    /\ \A k \in 1..10 : trades[k].side = "HOLD"
    /\ trades[11].side = "USDC_TO_ETH"
    /\ avg_pnl["USDC_TO_ETH"] = <<1, 25>>


\* the calls the driver has made on the strategy, and the places in them of
\* the decide, record_trade_outcome and observe calls
Calls == driver.calls
DecideCalls == {k \in 1..Len(Calls) : Calls[k].call.op = "decide"}
RecordCalls == {k \in 1..Len(Calls) : Calls[k].call.op = "record_trade_outcome"}
ObserveCalls == {k \in 1..Len(Calls) : Calls[k].call.op = "observe"}

\* the decide calls whose swap is executed: a result other than HOLD, with a
\* positive balance of the asset it sells
ExecutedSwaps ==
    {k \in DecideCalls :
        \/ /\ Calls[k].call.result = "USDC_TO_ETH"
           /\ RGt(Calls[k].call.portfolio_usdc, Zero)
        \/ /\ Calls[k].call.result = "ETH_TO_USDC"
           /\ RGt(Calls[k].call.portfolio_eth, Zero)}

\* the record_trade_outcome calls made for the swap of decide call k: in the
\* next iteration, with its side and its price as entry price
RecordsOf(k) ==
    {r \in RecordCalls :
        /\ r > k
        /\ Calls[r].i = Calls[k].i + 1
        /\ Calls[r].call.side = Calls[k].call.result
        /\ Calls[r].call.entry_price = Calls[k].call.eth_price}

\* call r comes before the decide call of its iteration
BeforeDecide(r) ==
    \A d \in DecideCalls : Calls[d].i = Calls[r].i => r < d

\* every record_trade_outcome call is for a swap executed in the iteration
\* before it and is not a HOLD; an iteration makes at most one such call; two
\* executed swaps have a record_trade_outcome call between them
LegsWellFormed ==
    /\ \A r \in RecordCalls :
           /\ Calls[r].call.side # "HOLD"
           /\ \E k \in ExecutedSwaps : r \in RecordsOf(k)
    /\ \A r1, r2 \in RecordCalls : Calls[r1].i = Calls[r2].i => r1 = r2
    /\ \A k1, k2 \in ExecutedSwaps :
           k1 < k2 => \E r \in RecordCalls : k1 < r /\ r < k2

\* C19 as stated: when the loop has ended, every executed swap has exactly one
\* record_trade_outcome call, made in the next iteration before its decide
\* call with the swap's side and entry price; at most one leg is open at a
\* time; no record_trade_outcome call has side HOLD or lacks an executed swap.
C19_EverySwapRecorded ==
    driver.pc = "done" =>
        /\ \A k \in ExecutedSwaps :
               /\ Cardinality(RecordsOf(k)) = 1
               /\ \A r \in RecordsOf(k) : BeforeDecide(r)
        /\ LegsWellFormed

\* C19 amended: every swap executed in an iteration that is not the last has,
\* once the next iteration has reached its decide call, exactly one
\* record_trade_outcome call, made before that decide call with the swap's
\* side and entry price; a swap executed in the last iteration has none and
\* its leg is still open when the loop ends; at most one leg is open at a
\* time; no record_trade_outcome call has side HOLD or lacks an executed swap.
C19_SwapRecordedNextIteration ==
    /\ \A k \in ExecutedSwaps :
           /\ (\E d \in DecideCalls : Calls[d].i = Calls[k].i + 1)
                  => /\ Cardinality(RecordsOf(k)) = 1
                     /\ \A r \in RecordsOf(k) : BeforeDecide(r)
           /\ (driver.pc = "done" /\ Calls[k].i + 1 < driver.iterations)
                  => Cardinality(RecordsOf(k)) = 1
           /\ (driver.pc = "done" /\ Calls[k].i + 1 = driver.iterations)
                  => /\ RecordsOf(k) = {}
                     /\ driver.entry_side = <<Calls[k].call.result>>
                     /\ driver.entry_price = <<Calls[k].call.eth_price>>
    /\ LegsWellFormed

\* the loop has ended after a swap that was recorded in the iteration after it
\* and a swap in the last iteration, which was not
C19_Witness ==
    /\ driver.pc = "done"
    /\ \E k \in ExecutedSwaps :
           /\ Calls[k].i + 1 < driver.iterations
           /\ RecordsOf(k) # {}
    /\ \E k \in ExecutedSwaps :
           /\ Calls[k].i + 1 = driver.iterations
           /\ RecordsOf(k) = {}

\* C20: in a run with observe_cycles = N >= 1, each of the iterations 0..N-1
\* calls observe, with the iteration's price, before decide, and no later
\* iteration calls it; the decide calls of iterations 0..N-2 find the policy
\* warming up and return HOLD; every decide call from iteration N-1 on finds
\* it active, and that of iteration N-1 scores with the market signal 0.0.
C20_WarmupInDriver ==
    driver.observe_cycles >= 1 =>
        LET N == driver.observe_cycles
        IN  /\ \A d \in DecideCalls :
                   LET j == Calls[d].i
                   IN  /\ j < N =>
                              /\ \E o \in ObserveCalls :
                                     /\ o < d
                                     /\ Calls[o].i = j
                                     /\ Calls[o].call.eth_price
                                            = Calls[d].call.eth_price
                              /\ Calls[d].observed_cycles = j + 1
                       /\ j <= N - 2 =>
                              /\ Calls[d].observed_cycles < N
                              /\ Calls[d].call.result = "HOLD"
                       /\ j >= N - 1 => Calls[d].observed_cycles >= N
                       /\ j = N - 1 => Calls[d].call.market_bias = Zero
            /\ \A o \in ObserveCalls : Calls[o].i < N
            /\ \A o1, o2 \in ObserveCalls : Calls[o1].i = Calls[o2].i => o1 = o2

\* a run with observe_cycles = 2 whose prices in iterations 0 and 1 differ:
\* decide held while warming up in iteration 0 and, active in iteration 1,
\* scored with the signal 0.0
C20_Witness ==
    /\ driver.observe_cycles = 2
    /\ \E d0, d1 \in DecideCalls :
           /\ Calls[d0].i = 0
           /\ Calls[d1].i = 1
           /\ Calls[d0].call.eth_price # Calls[d1].call.eth_price
           /\ Calls[d0].observed_cycles = 1
           /\ Calls[d0].call.result = "HOLD"
           /\ Calls[d1].observed_cycles = 2
           /\ Calls[d1].call.market_bias = Zero

====
